---------------------------- MODULE Spec2Model ----------------------------
(***************************************************************************)
(* Model of the Artist Project Assistant (Artfulway-MCP-Agent): the        *)
(* retrying search executor, the research collector, the synthesizer and   *)
(* the orchestrator of src/core/assistant.py, the module-level history and *)
(* session store of src/utils/session.py, and the request dispatch of      *)
(* src/api/routes.py.                                                      *)
(*                                                                         *)
(* A text is a sequence of tokens (strings); concatenation is \o.  Each    *)
(* async generator is modelled by its position (pc) between two yields:    *)
(* one action resumes the generator from a yield and runs it to the next   *)
(* yield, to its end, or to the exception that leaves it.                  *)
(***************************************************************************)
EXTENDS Integers, Sequences, FiniteSets, TLC

VARIABLES
    conversation_history,   \* utils/session.py: the module-level list every assistant aliases
    histOwner,              \* ghost: histOwner[i] is the request that appended entry i
    sessions,               \* utils/session.py: the session store, id -> history
    search_cache,           \* per assistant instance: query -> stored text
    constructed,            \* the assistant instances built so far
    req,                    \* per request: the generator's locals and position
    env                     \* the collaborators' behaviour allowed in this run

vars == <<conversation_history, histOwner, sessions, search_cache, constructed, req, env>>

---------------------------------------------------------------------------
(* Bounds of the model *)

MaxRequests == 2
MaxAssistants == 2
MaxChunks == 1
MaxLlmChunks == 2

Requests == 1..MaxRequests
Assistants == 1..MaxAssistants
SessionIds == {"s1", "s2"}
NoSession == "none"

(* Program constants *)

max_retries == 3
retry_delay == 5
NumQueries == 5
PacingDelay == 1

\* time is counted in hundredths of a second
TimeScale == 100
\* the values of random.uniform(0, 1) lie on a finer grid than the floats
\* around the sums they are added to
JitterScale == TimeScale * 10

---------------------------------------------------------------------------
(* Texts *)

Descriptions == { <<"mixed media portrait">>, <<"5", "*", "7 mural">> }
Questions == { <<"which brush?">> }

\* str.lower() on the tokens the model uses
Lower(tok) ==
    CASE tok = "Rate-Limited" -> "rate-limited"
      [] tok = "UNABLE TO COMPLETE" -> "unable to complete"
      [] tok = "OpenAI" -> "openai"
      [] OTHER -> tok

LowerText(text) == [i \in DOMAIN text |-> Lower(text[i])]

Contains(text, tok) == \E i \in DOMAIN text : text[i] = tok

\* the test of line 84 without .lower()
IsRateLimitedCaseSensitive(text) ==
    \E i \in DOMAIN text : text[i] \in {"rate-limited", "unable to complete"}

\* "rate-limited" in chunk.lower() or "unable to complete" in chunk.lower()
IsRateLimited(text) ==
    \/ Contains(LowerText(text), "rate-limited")
    \/ Contains(LowerText(text), "unable to complete")

\* full_result.replace("*", "")
IsNotStar(tok) == tok # "*"
StripStars(text) == SelectSeq(text, IsNotStar)

\* str(e)[:50]: the error texts of the model are shorter than the cut
ErrorPrefix(err) == SubSeq(err, 1, IF Len(err) < 50 THEN Len(err) ELSE 50)

RECURSIVE Flatten(_)
Flatten(chunks) ==
    IF chunks = <<>> THEN <<>> ELSE Head(chunks) \o Flatten(Tail(chunks))

RECURSIVE Pow2(_)
Pow2(n) == IF n = 0 THEN 1 ELSE 2 * Pow2(n - 1)

---------------------------------------------------------------------------
(* core/prompts.py *)

\* the fourth template without its placeholder
get_search_queries_generic(d) ==
    << <<"trending tools for ">> \o d,
       <<"best software for ">> \o d \o <<" 2025">>,
       <<"how to set up ">> \o d \o <<" workflow">>,
       <<"tips and best practices for ", "art projects">>,
       <<"free and paid tools comparison for ">> \o d >>

\* the first template used again in the place of the fifth
get_search_queries_repeating(d) ==
    << <<"trending tools for ">> \o d,
       <<"best software for ">> \o d \o <<" 2025">>,
       <<"how to set up ">> \o d \o <<" workflow">>,
       <<"tips and best practices for ">> \o d,
       <<"trending tools for ">> \o d >>

get_search_queries(d) ==
    << <<"trending tools for ">> \o d,
       <<"best software for ">> \o d \o <<" 2025">>,
       <<"how to set up ">> \o d \o <<" workflow">>,
       <<"tips and best practices for ">> \o d,
       <<"free and paid tools comparison for ">> \o d >>

---------------------------------------------------------------------------
(* The chunks of core/assistant.py *)

StartingChunk(q) == <<"Starting search for: ">> \o q \o <<"...\n">>
SearchingChunk == <<"Searching...\n">>
RetryNoticeChunk(attempt) ==
    <<"\nSearch encountered rate limits. Retrying in ",
      ToString(retry_delay * Pow2(attempt)), " seconds...\n">>
SuccessChunk == <<"\nSearch completed successfully.\n">>
FailedChunk(attempt, err) ==
    <<"\nSearch attempt ", ToString(attempt + 1), " failed: ">>
        \o ErrorPrefix(err) \o <<"...\n">>
\* f"{wait_time:.1f}": tenths of a second, rounded
WaitingChunk(wait) ==
    <<"Waiting ", ToString((wait * 10 + TimeScale \div 2) \div TimeScale),
      " tenths of seconds before retrying...\n">>
AllFailedChunk == <<"\nAll search attempts failed. Using internal knowledge instead.\n">>

_generate_fallback_response(q) ==
    <<"I couldn't retrieve external information about '">> \o q
        \o <<"' due to service limitations. I'll use my internal knowledge to assist with this topic instead.">>

ResearchingChunk(q) == <<"\n[Researching... ">> \o q \o <<"\n">>
CachedChunk(q) == <<"Using cached search results for: ">> \o q \o <<"\n">>
PausingChunk == <<"Pausing briefly before next search...\n">>
SummaryChunk(n) ==
    <<"\nAll research completed. Found information for ", ToString(n), " queries.\n">>
SynthesisMarker == "[LLM Synthesis] Generating comprehensive project guide..."
SynthesisChunk == <<"\n\n", SynthesisMarker, "\n\n">>

---------------------------------------------------------------------------
(* The collaborators: Search Capability (agent) and Model Provider (llm) *)

OkChunks == { <<"found tools">> }
StarChunk == <<"*", "Krita", "*", " is free">>
MarkedChunks == { <<"Rate-Limited", " by upstream">>, <<"I was ", "UNABLE TO COMPLETE">> }
Errors == { <<"ConnectionError">> }

\* what one call of agent.stream / agent.run does: the chunks it delivers and
\* how it ends ("end": normally, "raise": with the exception err)
Response(cs, e, x) == [chunks |-> cs, end |-> e, err |-> x]

RECURSIVE SeqsUpTo(_, _)
SeqsUpTo(S, n) ==
    IF n = 0 THEN { <<>> }
    ELSE LET shorter == SeqsUpTo(S, n - 1)
         IN shorter \cup { Append(s, x) : s \in { t \in shorter : Len(t) = n - 1 }, x \in S }

\* every response of at most MaxChunks unmarked chunks that then ends, raises
\* or delivers a marked chunk, and those that go on after a marked first chunk
FreeResponses ==
    LET prefixes == SeqsUpTo(OkChunks, MaxChunks)
    IN    { Response(p, "end", <<>>) : p \in prefixes }
     \cup { Response(p, "raise", x) : p \in prefixes, x \in Errors }
     \cup { Response(Append(p, m), "end", <<>>) : p \in prefixes, m \in MarkedChunks }
     \cup { Response(<<m, c>>, "end", <<>>) : m \in MarkedChunks, c \in OkChunks }

OkResponse == Response(<< <<"found ">>, StarChunk >>, "end", <<>>)
LimitedResponse == Response(<< <<"Sorry, ", "rate-limited">> >>, "end", <<>>)
RaiseResponse == Response(<<>>, "raise", <<"TimeoutError">>)

LlmChunks == { <<>>, <<"guide">> }
OkLlm == Response(<< <<"Project Analysis">>, <<>>, <<"Setup Guide">> >>, "end", <<>>)
EmptyLlm == Response(<< <<>> >>, "end", <<>>)
RaiseLlm == Response(<< <<"Project Analysis">> >>, "raise", <<"DeadlineExceeded">>)
\* a guide that quotes the line the synthesis phase opens with
QuotingLlm ==
    Response(<< <<"Project Analysis">>, <<SynthesisMarker>>, <<"Setup Guide">> >>, "end", <<>>)
FreeLlm ==
    LET prefixes == SeqsUpTo(LlmChunks, MaxLlmChunks)
    IN { Response(p, e, <<>>) : p \in prefixes, e \in {"end", "raise"} }

\* values of random.uniform(0, 1), all below 1, in units of 1/JitterScale
Jitters == { 0, JitterScale \div 2, JitterScale - 1 }

---------------------------------------------------------------------------
(* Requests *)

\* a pydantic Optional field that was left out
None == <<"None">>
\* the test "is not None" in the place of the truth test of lines 46 and 82
TruthyWhenGiven(x) == x # None
Truthy(x) == x # None /\ x # <<>>

\* a call of the assistant: through the HTTP routes (a ProjectRequest body) or
\* directly on an assistant instance that exists already
Call(via, method, pd, fq, sid, mt) ==
    [via |-> via, method |-> method, project_description |-> pd,
     follow_up_question |-> fq, session_id |-> sid, model_type |-> mt]

NoCall == Call("none", "none", None, None, NoSession, "gemini")

\* what the client of a route gets: the HTTP status and, for /process, the
\* fields of the ProjectResponse
Http(status, response, session_id) ==
    [status |-> status, response |-> response, session_id |-> session_id]
NoHttp == Http(0, None, None)
NoResponse == Response(<<>>, "none", <<>>)
NoMessages == [system |-> FALSE, input |-> <<>>, context |-> <<>>, results |-> <<>>]

IdleRequest ==
    [pc |-> "idle", call |-> NoCall, kind |-> "none", input |-> <<>>, asst |-> 0,
     out |-> <<>>, idx |-> 0, queries |-> <<>>, search_results |-> <<>>,
     full_result |-> <<>>, attempt |-> 0, at |-> "idle", resp |-> NoResponse, wait_time |-> 0,
     response_content |-> <<>>, messages |-> NoMessages, ctxOwner |-> <<>>,
     answers |-> <<>>, reply |-> NoResponse, trace |-> <<>>, hist0 |-> <<>>, hist1 |-> <<>>, alone |-> TRUE,
     http |-> NoHttp, returned |-> None]

Terminal == {"done", "failed", "abandoned", "rejected"}
Running(rec) == rec.pc \notin ({"idle", "created"} \cup Terminal)

\* ghost: what the generator did, in order
Ev(e, q, t) == [e |-> e, q |-> q, t |-> t]
Note(rec, e, q, t) == [rec EXCEPT !.trace = Append(@, Ev(e, q, t))]
\* ghost: what the agent answers to the call made for query rec.idx
Called(rec, resp) ==
    Note([rec EXCEPT !.answers = Append(@, [q |-> rec.idx, resp |-> resp])],
         "search_call", rec.idx, 0)

UserMessage(text) == [role |-> "user", message |-> text]
AssistantMessage(text) == [role |-> "assistant", message |-> text]
SystemMessage(text) == [role |-> "system", message |-> text]
ARTIST_ASSISTANT_PROMPT == <<"You are an expert Artist Project Assistant.">>

---------------------------------------------------------------------------
(* core/assistant.py: the generators, as functions of the request's record *)

CurrentQuery(rec) == rec.queries[rec.idx]

\* a yield of _collect_search_results, forwarded by stream_project (line 188)
Emit(rec, chunk) == [rec EXCEPT !.out = Append(@, chunk)]

\* full_result = chunk in the place of line 157
ForwardOverwriting(rec, chunk) == Emit([rec EXCEPT !.full_result = chunk], chunk)

\* a yield of _execute_search_with_retry, concatenated by the collector
\* (line 157) and forwarded (line 158)
Forward(rec, chunk) == Emit([rec EXCEPT !.full_result = @ \o chunk], chunk)

\* the loop of line 73 running once more than max_retries times
EnterAttemptOnceMore(rec, att) ==
    IF att <= max_retries
    THEN [rec EXCEPT !.attempt = att, !.pc = "e_started",
                     !.full_result = @ \o StartingChunk(rec.queries[rec.idx]),
                     !.out = Append(@, StartingChunk(rec.queries[rec.idx]))]
    ELSE [rec EXCEPT !.pc = "e_allfailed", !.full_result = @ \o AllFailedChunk,
                     !.out = Append(@, AllFailedChunk)]

\* line 73: the next turn of "for attempt in range(self.max_retries)", up to
\* its first yield (line 78), or the code after the loop up to line 115
EnterAttempt(rec, att) ==
    IF att < max_retries
    THEN Forward([rec EXCEPT !.attempt = att, !.pc = "e_started"],
                 StartingChunk(CurrentQuery(rec)))
    ELSE Forward([rec EXCEPT !.pc = "e_allfailed"], AllFailedChunk)

\* the exception of the agent leaving the executor, as without lines 107-111
OnExceptionPropagates(rec, err) == [rec EXCEPT !.pc = "failed"]

\* lines 107-108: the except clause, up to its first yield
OnException(rec, err) ==
    Forward([rec EXCEPT !.pc = "e_failed"], FailedChunk(rec.attempt, err))

\* line 88 reached by a marked chunk too: the chunk is yielded, then the
\* retry follows
StreamNextForwardsMarked(rec) ==
    IF rec.resp.chunks # <<>>
    THEN LET chunk == Head(rec.resp.chunks)
             rest == [rec EXCEPT !.resp.chunks = Tail(@)]
         IN IF IsRateLimited(chunk)
            THEN Forward([rest EXCEPT !.pc = "e_retry_notice"], chunk)
            ELSE Forward([rest EXCEPT !.pc = "e_chunk"], chunk)
    ELSE IF rec.resp.end = "raise"
    THEN OnException(rec, rec.resp.err)
    ELSE Forward([rec EXCEPT !.pc = "e_success"], SuccessChunk)

\* lines 82-92: the next turn of "async for chunk in self.agent.stream(...)"
StreamNext(rec) ==
    IF rec.resp.chunks # <<>>
    THEN LET chunk == Head(rec.resp.chunks)
             rest == [rec EXCEPT !.resp.chunks = Tail(@)]
         IN IF IsRateLimited(chunk)
            THEN Forward([rest EXCEPT !.pc = "e_retry_notice"],
                         RetryNoticeChunk(rec.attempt))
            ELSE Forward([rest EXCEPT !.pc = "e_chunk"], chunk)
    ELSE IF rec.resp.end = "raise"
    THEN OnException(rec, rec.resp.err)
    ELSE Forward([rec EXCEPT !.pc = "e_success"], SuccessChunk)

\* lines 96-104: result = await self.agent.run(search_prompt), up to the yield
\* that follows it
RunResult(rec, resp) ==
    LET result == Flatten(resp.chunks)
    IN IF resp.end = "raise"
       THEN OnException(rec, resp.err)
       ELSE IF IsRateLimited(result)
       THEN Forward([rec EXCEPT !.pc = "e_retry_notice"], RetryNoticeChunk(rec.attempt))
       ELSE Forward([rec EXCEPT !.pc = "e_result"], result)

\* lines 86, 101, 109: self.retry_delay * (2 ** attempt) + random.uniform(0, 1)
\* the float addition "+ random.uniform(0, 1)": the sum is rounded to the
\* nearest value of its own grid
RoundToTick(jitter) == (jitter * TimeScale + JitterScale \div 2) \div JitterScale

\* the delay without the exponent
BackoffFlat(attempt, jitter) == retry_delay * TimeScale + RoundToTick(jitter)

\* the delay growing by retry_delay per attempt
BackoffLinear(attempt, jitter) ==
    retry_delay * (attempt + 1) * TimeScale + RoundToTick(jitter)

Backoff(attempt, jitter) ==
    retry_delay * Pow2(attempt) * TimeScale + RoundToTick(jitter)

\* the collector starting every turn of its loop with an empty list
NextQueryFresh(rec) ==
    IF rec.idx < Len(rec.queries)
    THEN [rec EXCEPT !.idx = @ + 1, !.pc = "c_researching", !.search_results = <<>>,
                     !.out = Append(@, ResearchingChunk(rec.queries[rec.idx + 1]))]
    ELSE [rec EXCEPT !.pc = "c_summary",
                     !.out = Append(@, SummaryChunk(Len(rec.search_results)))]

\* lines 145-146 and 169: the next turn of the collector's loop, or its end
NextQuery(rec) ==
    IF rec.idx < Len(rec.queries)
    THEN Emit([rec EXCEPT !.idx = @ + 1, !.pc = "c_researching"],
              ResearchingChunk(rec.queries[rec.idx + 1]))
    ELSE Emit([rec EXCEPT !.pc = "c_summary"], SummaryChunk(Len(rec.search_results)))

\* the collector running the executor without consulting the cache
CheckCacheNever(rec, cache) ==
    LET fresh == [rec EXCEPT !.full_result = <<>>,
                             !.trace = Append(@, [e |-> "executor", q |-> rec.idx, t |-> 0])]
        chunk == StartingChunk(rec.queries[rec.idx])
    IN [fresh EXCEPT !.attempt = 0, !.pc = "e_started", !.full_result = chunk,
                     !.out = Append(@, chunk)]

\* lines 149-156: cache check, and on a miss the start of the executor
CheckCache(rec, cache) ==
    IF CurrentQuery(rec) \in DOMAIN cache
    THEN Emit([rec EXCEPT !.pc = "c_cached"], CachedChunk(CurrentQuery(rec)))
    ELSE EnterAttempt(Note([rec EXCEPT !.full_result = <<>>], "executor", rec.idx, 0), 0)

\* line 151
CachedResult(rec, cache) ==
    [query |-> CurrentQuery(rec), results |-> cache[CurrentQuery(rec)]]

\* a collector that does not store the text of a failed search
CacheStoreUnlessFallback(cache, q, full_result) ==
    IF \E k \in DOMAIN full_result : full_result[k] = AllFailedChunk[1]
    THEN cache
    ELSE [x \in DOMAIN cache \cup {q} |-> IF x = q THEN full_result ELSE cache[x]]

\* line 161: self.search_cache[query] = full_result
CacheStore(cache, q, full_result) ==
    [x \in DOMAIN cache \cup {q} |-> IF x = q THEN full_result ELSE cache[x]]

\* line 162
ExecutedResult(rec) ==
    [query |-> CurrentQuery(rec), results |-> StripStars(rec.full_result)]

RECURSIVE DropEmpty(_)
DropEmpty(chunks) ==
    IF chunks # <<>> /\ Head(chunks) = <<>> THEN DropEmpty(Tail(chunks)) ELSE chunks

\* the loops of lines 208-211 and 237-240 inside a try whose except clause
\* ends them as their normal end does
LlmNextSwallows(rec, streaming) ==
    LET cs == DropEmpty(rec.resp.chunks)
    IN IF cs # <<>>
       THEN Emit([rec EXCEPT !.resp.chunks = Tail(cs),
                             !.response_content = @ \o Head(cs),
                             !.pc = streaming], Head(cs))
       ELSE [rec EXCEPT !.resp.chunks = <<>>, !.pc = "done"]

\* the loop of lines 208-211 leaving for the append of line 214 with its
\* first content chunk
LlmNextEager(rec, streaming) ==
    LET cs == DropEmpty(rec.resp.chunks)
    IN IF cs # <<>>
       THEN Emit([rec EXCEPT !.resp.chunks = Tail(cs),
                             !.response_content = @ \o Head(cs),
                             !.pc = "done"], Head(cs))
       ELSE [rec EXCEPT !.resp.chunks = <<>>, !.pc = "done"]

\* lines 208-211 and 237-240: the next turn of "async for chunk in ...astream",
\* which skips the chunks without content; "done" is the loop's normal end
LlmNext(rec, streaming) ==
    LET cs == DropEmpty(rec.resp.chunks)
    IN IF cs # <<>>
       THEN Emit([rec EXCEPT !.resp.chunks = Tail(cs),
                             !.response_content = @ \o Head(cs),
                             !.pc = streaming], Head(cs))
       ELSE IF rec.resp.end = "raise"
       THEN [rec EXCEPT !.resp.chunks = <<>>, !.pc = "failed"]
       ELSE [rec EXCEPT !.resp.chunks = <<>>, !.pc = "done"]

\* line 183 and line 228: the user message of the exchange
ProjectUserMessage(d) == UserMessage(<<"Project Description: ">> \o d)
FollowupUserMessage(q) == UserMessage(q)

\* lines 195-204: the two messages of the synthesis call
SynthesisMessages(rec) ==
    [system |-> TRUE, input |-> rec.input, context |-> <<>>, results |-> rec.search_results]

\* lines 32-45 and 58: the chain's prompt, with the joined history as context
FollowupMessages(rec, history) ==
    [system |-> TRUE, input |-> rec.input, context |-> history, results |-> <<>>]

---------------------------------------------------------------------------
(* The runs that are explored: what the clients send and what the          *)
(* collaborators answer                                                    *)

AllQueries(S) == [i \in 1..NumQueries |-> S]
OnlyAt(k, S, D) == [i \in 1..NumQueries |-> IF i = k THEN S ELSE D]

Description1 == <<"mixed media portrait">>
Question1 == <<"which brush?">>

HttpFollowups(sids) ==
    { Call("http", "/process/stream", None, q, sid, "gemini") : q \in Questions, sid \in sids }
HttpCalls(sids) ==
    { Call("http", "/process/stream", d, None, sid, "gemini") : d \in {Description1}, sid \in sids }
    \cup HttpFollowups(sids)
DirectFollowups ==
    { Call("direct", "stream_followup", None, q, NoSession, "gemini") : q \in Questions }
DirectCalls ==
    { Call("direct", "stream_project", d, None, NoSession, "gemini") : d \in Descriptions }
    \cup DirectFollowups

\* the bodies a client posts to a route: each of project_description and
\* follow_up_question left out, empty or given; session_id left out, empty
\* or an id the store does not hold
Routes == {"/process", "/process/stream"}
Bodies ==
    { Call("http", route, d, q, sid, "gemini") :
        route \in Routes, d \in {None, Description1}, q \in {None, <<>>, Question1},
        sid \in {NoSession, "", "s1"} }

\* the model_type query parameter of get_assistant
ModelTypes == {"gemini", "OpenAI", "claude"}
Providers == {"openai", "gemini"}
ConfigCalls ==
    { Call("http", route, None, Question1, NoSession, mt) :
        route \in Routes, mt \in ModelTypes }

Environment(hasStream, resp, jit, llm, calls, overlap, abandon, direct, store) ==
    [hasStream |-> hasStream, resp |-> resp, jit |-> jit, llm |-> llm, calls |-> calls,
     overlap |-> overlap, abandon |-> abandon, direct |-> direct, store |-> store,
     keys |-> Providers]

\* concurrent HTTP requests of two sessions: a request of any kind and
\* follow-ups beside it; every search succeeds
EnvConcurrent ==
    { Environment(TRUE, AllQueries({OkResponse}), AllQueries({0}), {OkLlm},
                  [r \in Requests |-> IF r = 1 THEN HttpCalls({"s1"})
                                      ELSE IF r = 2 THEN HttpFollowups({"s2"})
                                      ELSE HttpFollowups({"s1"})],
                  TRUE, FALSE, FALSE, FALSE) }

\* HTTP requests of two sessions, one after the other: two requests of any
\* kind, and follow-ups after them
EnvSequence ==
    { Environment(TRUE, AllQueries({OkResponse}), AllQueries({0}), {OkLlm},
                  [r \in Requests |-> IF r = 1 THEN HttpCalls({"s1"})
                                      ELSE IF r = 2 THEN HttpCalls({"s2"})
                                      ELSE HttpFollowups({"s1"})],
                  FALSE, FALSE, FALSE, FALSE) }

\* assistant instances called several times, one call after the other: two
\* calls of any kind, and follow-ups after them; the agent answers every
\* search, or is rate limited at every search (streaming), or raises at
\* every search (blocking)
ReuseAgents ==
    { <<TRUE, OkResponse>>, <<FALSE, OkResponse>>,
      <<TRUE, LimitedResponse>>, <<FALSE, RaiseResponse>> }
EnvReuse ==
    { Environment(ag[1], AllQueries({ag[2]}), AllQueries({0}), {OkLlm},
                  [r \in Requests |-> IF r <= 2 THEN DirectCalls ELSE DirectFollowups],
                  FALSE, FALSE, TRUE, FALSE) :
        ag \in ReuseAgents }

\* one project request; the search of query k, the last or the last but one
\* of the pass, answers in any way
EnvFree ==
    { Environment(hs, OnlyAt(k, FreeResponses, {OkResponse}), AllQueries({0}), {OkLlm},
                  [r \in Requests |-> IF r = 1 THEN HttpCalls({"s1"}) ELSE {}],
                  FALSE, FALSE, FALSE, FALSE) :
        hs \in BOOLEAN, k \in {NumQueries - 1, NumQueries} }

\* one project request whose searches all fail; the jitter of query k, the
\* first or the last of the pass, is free
EnvJitter ==
    { Environment(hs, AllQueries({resp}), OnlyAt(k, Jitters, {0}), {OkLlm},
                  [r \in Requests |-> IF r = 1 THEN HttpCalls({"s1"}) ELSE {}],
                  FALSE, FALSE, FALSE, FALSE) :
        hs \in BOOLEAN, resp \in {LimitedResponse, RaiseResponse}, k \in {1, NumQueries} }

\* one request; the model answers in any way and the consumer may stop pulling
EnvAbandon ==
    { Environment(TRUE, AllQueries({OkResponse}), AllQueries({0}),
                  FreeLlm \cup {OkLlm, EmptyLlm, RaiseLlm},
                  [r \in Requests |-> IF r = 1 THEN HttpCalls({"s1"}) ELSE {}],
                  FALSE, TRUE, FALSE, FALSE) }

\* no request: the functions of the session store are called
EnvStore ==
    { Environment(TRUE, AllQueries({OkResponse}), AllQueries({0}), {OkLlm},
                  [r \in Requests |-> {}], FALSE, FALSE, FALSE, TRUE) }

\* one request of any body on either route; the model answers or raises
EnvRoutes ==
    { Environment(TRUE, AllQueries({OkResponse}), AllQueries({0}),
                  {OkLlm, RaiseLlm, QuotingLlm},
                  [r \in Requests |-> IF r = 1 THEN Bodies ELSE {}],
                  FALSE, FALSE, FALSE, FALSE) }

\* one follow-up request of any model type; config.py found the API keys of
\* the providers in keys
EnvConfig ==
    { [Environment(TRUE, AllQueries({OkResponse}), AllQueries({0}), {OkLlm},
                   [r \in Requests |-> IF r = 1 THEN ConfigCalls ELSE {}],
                   FALSE, FALSE, FALSE, FALSE) EXCEPT !.keys = keys] :
        keys \in SUBSET Providers }

Environments ==
    EnvConcurrent \cup EnvReuse \cup EnvFree \cup EnvJitter \cup EnvAbandon \cup EnvStore
        \cup EnvRoutes \cup EnvConfig \cup EnvSequence

---------------------------------------------------------------------------
(* State *)

EmptyCache == [x \in {} |-> <<>>]

Init ==
    /\ conversation_history = <<>>
    /\ histOwner = <<>>
    /\ sessions = [x \in {} |-> <<>>]
    /\ search_cache = [a \in Assistants |-> EmptyCache]
    /\ constructed = {}
    /\ req = [r \in Requests |-> IdleRequest]
    /\ env \in Environments

\* a step of request r's generator: the other running requests have been
\* interleaved with
Commit(r, rec, history, owner) ==
    /\ req' = [x \in Requests |->
                 IF x = r THEN rec
                 ELSE IF Running(req[x]) THEN [req[x] EXCEPT !.alone = FALSE]
                 ELSE req[x]]
    /\ conversation_history' = history
    /\ histOwner' = owner

Step(r, rec) == Commit(r, rec, conversation_history, histOwner)

\* lines 213-214 appending only a message the history does not hold yet
FinishDeduplicated(r, rec, history, owner) ==
    LET msg == AssistantMessage(rec.response_content)
        known == \E i \in DOMAIN history : history[i] = msg
    IN IF rec.pc = "done" /\ ~known
       THEN Commit(r, [Note(rec, "assistant_append", 0, 0) EXCEPT
                          !.hist1 = Append(history, msg)],
                   Append(history, msg), Append(owner, r))
       ELSE Commit(r, [rec EXCEPT !.hist1 = history], history, owner)

\* lines 213-214 and 242-243: after the loop over the model's stream
Finish(r, rec, history, owner) ==
    IF rec.pc = "done"
    THEN LET h == Append(history, AssistantMessage(rec.response_content))
         IN Commit(r, [Note(rec, "assistant_append", 0, 0) EXCEPT !.hist1 = h],
                   h, Append(owner, r))
    ELSE Commit(r, rec, history, owner)

MayStart(r) ==
    /\ req[r].pc = "idle"
    /\ \A x \in Requests : x < r => req[x].pc # "idle"
    /\ env.overlap \/ \A x \in Requests : req[x].pc \in {"idle"} \cup Terminal

FreshAssistant == CHOOSE a \in Assistants \ constructed :
                      \A b \in Assistants \ constructed : a <= b

---------------------------------------------------------------------------
(* api/routes.py *)

\* get_assistant (lines 14-30) builds an assistant of its own for the request;
\* generate_stream / process_request_background (lines 46-49, 81-86) choose
\* the operation
Dispatch(c) ==
    IF c.via = "direct"
    THEN IF c.method = "stream_followup"
         THEN [kind |-> "followup", input |-> c.follow_up_question]
         ELSE [kind |-> "project", input |-> c.project_description]
    ELSE IF Truthy(c.follow_up_question)
         THEN [kind |-> "followup", input |-> c.follow_up_question]
         ELSE [kind |-> "project", input |-> c.project_description]

Created(c, a) ==
    [IdleRequest EXCEPT !.pc = "created", !.call = c, !.asst = a,
                        !.kind = Dispatch(c).kind, !.input = Dispatch(c).input]

\* services/llm_service.py, create_llm (lines 37-68): the status of the
\* HTTPException it raises, 200 when it returns an llm
create_llm(model_type, keys) ==
    IF Lower(model_type) = "openai"
    THEN IF "openai" \notin keys THEN 500 ELSE 200
    ELSE IF Lower(model_type) = "gemini"
    THEN IF "gemini" \notin keys THEN 500 ELSE 200
    ELSE 400

\* process_project_stream, lines 89-92: the StreamingResponse is returned
\* before the generator is pulled
Routed(c, a) ==
    IF c.method = "/process/stream"
    THEN [Created(c, a) EXCEPT !.http = Http(200, None, None)]
    ELSE Created(c, a)

Rejected(c, status) ==
    [IdleRequest EXCEPT !.pc = "rejected", !.call = c, !.http = Http(status, None, None)]

\* a request arrives: Depends(get_assistant) (lines 14-30) runs before the
\* route's body
HttpRequest(r) ==
    /\ MayStart(r)
    /\ constructed # Assistants
    /\ \E c \in env.calls[r] :
         /\ c.via = "http"
         /\ LET status == create_llm(c.model_type, env.keys)
            IN IF status = 200
               THEN /\ req' = [req EXCEPT ![r] = Routed(c, FreshAssistant)]
                    /\ constructed' = constructed \cup {FreshAssistant}
                    /\ search_cache' = [search_cache EXCEPT ![FreshAssistant] = EmptyCache]
               ELSE /\ req' = [req EXCEPT ![r] = Rejected(c, status)]
                    /\ UNCHANGED <<constructed, search_cache>>
    /\ UNCHANGED <<conversation_history, histOwner, sessions, env>>

\* ArtistProjectAssistant.__init__ (lines 18-49), called by a program that
\* keeps the instance
Construct ==
    /\ env.direct
    /\ constructed # Assistants
    /\ \A r \in Requests : req[r].pc \in {"idle"} \cup Terminal
    /\ constructed' = constructed \cup {FreshAssistant}
    /\ search_cache' = [search_cache EXCEPT ![FreshAssistant] = EmptyCache]
    /\ UNCHANGED <<conversation_history, histOwner, sessions, req, env>>

DirectCall(r) ==
    /\ MayStart(r)
    /\ \E c \in env.calls[r], a \in constructed :
         /\ c.via = "direct"
         /\ req' = [req EXCEPT ![r] = Created(c, a)]
    /\ UNCHANGED <<conversation_history, histOwner, sessions, search_cache, constructed, env>>

---------------------------------------------------------------------------
(* core/assistant.py: one action per resumption of a generator *)

\* stream_project, lines 183-188 with lines 142-146: the first pull
StreamProjectStart(r) ==
    /\ req[r].pc = "created" /\ req[r].kind = "project"
    /\ LET rec == req[r]
           qs == get_search_queries(rec.input)
           started == Note([rec EXCEPT !.hist0 = conversation_history, !.queries = qs,
                                       !.search_results = <<>>, !.idx = 0],
                           "user_append", 0, 0)
       IN Commit(r, NextQuery(started),
                 Append(conversation_history, ProjectUserMessage(rec.input)),
                 Append(histOwner, r))
    /\ UNCHANGED <<sessions, search_cache, constructed, env>>

\* _collect_search_results, lines 148-156, with lines 73-78 on a cache miss
CollectCheckCache(r) ==
    /\ req[r].pc = "c_researching"
    /\ Step(r, CheckCache(req[r], search_cache[req[r].asst]))
    /\ UNCHANGED <<sessions, search_cache, constructed, env>>

\* _collect_search_results, lines 151-152, then the next turn of the loop
CollectCached(r) ==
    /\ req[r].pc = "c_cached"
    /\ LET rec == req[r]
       IN Step(r, NextQuery([rec EXCEPT !.search_results =
                                Append(@, CachedResult(rec, search_cache[rec.asst]))]))
    /\ UNCHANGED <<sessions, search_cache, constructed, env>>

\* _execute_search_with_retry, lines 81-82 (streaming agent) or 95 (blocking agent)
ExecStarted(r) ==
    /\ req[r].pc = "e_started"
    /\ LET rec == req[r]
       IN IF env.hasStream
          THEN \E resp \in env.resp[rec.idx] :
                  Step(r, StreamNext(Called([rec EXCEPT !.resp = resp], resp)))
          ELSE Step(r, Forward([rec EXCEPT !.pc = "e_searching"], SearchingChunk))
    /\ UNCHANGED <<sessions, search_cache, constructed, env>>

\* _execute_search_with_retry, line 88 resumed: the next chunk of the stream
ExecChunk(r) ==
    /\ req[r].pc = "e_chunk"
    /\ Step(r, StreamNext(req[r]))
    /\ UNCHANGED <<sessions, search_cache, constructed, env>>

\* _execute_search_with_retry, lines 96-104
ExecSearching(r) ==
    /\ req[r].pc = "e_searching"
    /\ \E resp \in env.resp[req[r].idx] :
          Step(r, RunResult(Called(req[r], resp), resp))
    /\ UNCHANGED <<sessions, search_cache, constructed, env>>

\* _execute_search_with_retry, lines 86-87 and 101-102: sleep, next attempt
ExecRetryNotice(r) ==
    /\ req[r].pc = "e_retry_notice"
    /\ \E jitter \in env.jit[req[r].idx] :
          LET rec == req[r]
          IN Step(r, EnterAttempt(Note(rec, "sleep", rec.idx, Backoff(rec.attempt, jitter)),
                                  rec.attempt + 1))
    /\ UNCHANGED <<sessions, search_cache, constructed, env>>

\* _execute_search_with_retry, lines 109-110
ExecFailed(r) ==
    /\ req[r].pc = "e_failed"
    /\ \E jitter \in env.jit[req[r].idx] :
          LET rec == req[r]
              wait_time == Backoff(rec.attempt, jitter)
          IN Step(r, Forward([rec EXCEPT !.wait_time = wait_time, !.pc = "e_waiting"],
                             WaitingChunk(wait_time)))
    /\ UNCHANGED <<sessions, search_cache, constructed, env>>

\* _execute_search_with_retry, line 111: sleep, next attempt
ExecWaiting(r) ==
    /\ req[r].pc = "e_waiting"
    /\ LET rec == req[r]
       IN Step(r, EnterAttempt(Note(rec, "sleep", rec.idx, rec.wait_time), rec.attempt + 1))
    /\ UNCHANGED <<sessions, search_cache, constructed, env>>

\* _execute_search_with_retry, lines 114-116
ExecAllFailed(r) ==
    /\ req[r].pc = "e_allfailed"
    /\ LET rec == req[r]
       IN Step(r, Forward([rec EXCEPT !.pc = "e_fallback"],
                          _generate_fallback_response(CurrentQuery(rec))))
    /\ UNCHANGED <<sessions, search_cache, constructed, env>>

\* the executor has ended (line 92, 105 or 116); _collect_search_results,
\* lines 160-165
CollectStore(r) ==
    /\ req[r].pc \in {"e_success", "e_result", "e_fallback"}
    /\ LET rec == req[r]
       IN /\ search_cache' = [search_cache EXCEPT ![rec.asst] =
                                 CacheStore(@, CurrentQuery(rec), rec.full_result)]
          /\ Step(r, Emit([rec EXCEPT !.search_results = Append(@, ExecutedResult(rec)),
                                      !.pc = "c_pausing"], PausingChunk))
    /\ UNCHANGED <<sessions, constructed, env>>

\* _collect_search_results, line 166, then the next turn of the loop
CollectPausing(r) ==
    /\ req[r].pc = "c_pausing"
    /\ Step(r, NextQuery(Note(req[r], "pace", req[r].idx, PacingDelay * TimeScale)))
    /\ UNCHANGED <<sessions, search_cache, constructed, env>>

\* stream_project, lines 191-192
ProjectMarker(r) ==
    /\ req[r].pc = "c_summary"
    /\ Step(r, Emit([req[r] EXCEPT !.pc = "p_marker"], SynthesisChunk))
    /\ UNCHANGED <<sessions, search_cache, constructed, env>>

\* stream_project, lines 194-211 (and 213-214 when the model sends no content)
SynthesisStart(r) ==
    /\ req[r].pc = "p_marker"
    /\ \E resp \in env.llm :
          LET rec == req[r]
              called == Note([rec EXCEPT !.resp = resp, !.reply = resp,
                                         !.response_content = <<>>,
                                         !.messages = SynthesisMessages(rec)],
                             "model_call", 0, 0)
          IN Finish(r, LlmNext(called, "p_stream"), conversation_history, histOwner)
    /\ UNCHANGED <<sessions, search_cache, constructed, env>>

\* stream_followup, lines 228-240 (and 242-243 when the model sends no content)
StreamFollowupStart(r) ==
    /\ req[r].pc = "created" /\ req[r].kind = "followup"
    /\ \E resp \in env.llm :
          LET rec == req[r]
              history == Append(conversation_history, FollowupUserMessage(rec.input))
              owner == Append(histOwner, r)
              called == Note(Note([rec EXCEPT !.hist0 = conversation_history,
                                              !.resp = resp, !.reply = resp,
                                              !.response_content = <<>>,
                                              !.messages = FollowupMessages(rec, history),
                                              !.ctxOwner = owner],
                                  "user_append", 0, 0), "model_call", 0, 0)
          IN Finish(r, LlmNext(called, "f_stream"), history, owner)
    /\ UNCHANGED <<sessions, search_cache, constructed, env>>

\* lines 208-214 and 237-243: the generator resumed after a content chunk
StreamContent(r) ==
    /\ req[r].pc \in {"p_stream", "f_stream"}
    /\ Finish(r, LlmNext(req[r], req[r].pc), conversation_history, histOwner)
    /\ UNCHANGED <<sessions, search_cache, constructed, env>>

\* the consumer stops pulling: the generator stays where it is and is closed
Abandon(r) ==
    /\ env.abandon
    /\ Running(req[r])
    /\ req' = [req EXCEPT ![r].pc = "abandoned", ![r].at = req[r].pc]
    /\ UNCHANGED <<conversation_history, histOwner, sessions, search_cache, constructed, env>>

\* str.strip() on a text whose first and last tokens are whole
Whitespace == {"\n\n", "\n", " "}
RECURSIVE StripLeft(_)
StripLeft(text) ==
    IF text # <<>> /\ Head(text) \in Whitespace THEN StripLeft(Tail(text)) ELSE text
RECURSIVE StripRight(_)
StripRight(text) ==
    IF text # <<>> /\ text[Len(text)] \in Whitespace
    THEN StripRight(SubSeq(text, 1, Len(text) - 1)) ELSE text
Strip(text) == StripRight(StripLeft(text))

\* research_project, lines 260-268: full_response.split(synthesis_marker)[1]
research_project(full_response) ==
    LET marks == { p \in DOMAIN full_response : full_response[p] = SynthesisMarker }
    IN IF marks = {} THEN full_response
       ELSE LET first == CHOOSE p \in marks : \A x \in marks : p <= x
                later == { p \in marks : p > first }
                stop == IF later = {} THEN Len(full_response) + 1
                        ELSE CHOOSE p \in later : \A x \in later : p <= x
            IN Strip(SubSeq(full_response, first + 1, stop - 1))

\* process_followup, lines 292-296
process_followup(full_response) == full_response

\* api/models.py, lines 38-43: both fields are required str fields; None is
\* the one value of the model that is not a str
IsStr(x) == x # None
ProjectResponse(response, session_id) ==
    IF IsStr(response) /\ IsStr(session_id)
    THEN Http(200, response, session_id)
    ELSE Http(500, None, None)

\* process_project, lines 63-68: the awaited operation has returned or raised
ProcessRespond(r) ==
    /\ req[r].call.method = "/process"
    /\ req[r].pc \in {"done", "failed"}
    /\ req[r].http = NoHttp
    /\ LET rec == req[r]
           full_response == Flatten(rec.out)
           response == IF rec.kind = "followup" THEN process_followup(full_response)
                       ELSE research_project(full_response)
       IN req' = [req EXCEPT ![r].http =
                     IF rec.pc = "failed" THEN Http(500, None, None)
                     ELSE ProjectResponse(response, None),
                                ![r].returned =
                     IF rec.pc = "failed" THEN None ELSE response]
    /\ UNCHANGED <<conversation_history, histOwner, sessions, search_cache, constructed, env>>

---------------------------------------------------------------------------
(* utils/session.py *)

MaxHistory == 2

StoreMessages == { UserMessage(Question1), AssistantMessage(<<"guide">>) }
\* the histories update_session is given: a history read from the store with
\* messages appended
StoreHistories ==
    { <<SystemMessage(ARTIST_ASSISTANT_PROMPT)>>,
      <<SystemMessage(ARTIST_ASSISTANT_PROMPT), UserMessage(Question1)>>,
      <<SystemMessage(ARTIST_ASSISTANT_PROMPT), UserMessage(Question1),
        AssistantMessage(<<"guide">>)>> }

\* create_session, lines 22-24: the new id is one the store does not hold
create_session(sid) ==
    /\ env.store
    /\ sid \notin DOMAIN sessions
    /\ sessions' = [x \in DOMAIN sessions \cup {sid} |->
                      IF x = sid THEN <<SystemMessage(ARTIST_ASSISTANT_PROMPT)>>
                      ELSE sessions[x]]
    /\ UNCHANGED <<conversation_history, histOwner, search_cache, constructed, req, env>>

\* get_session, line 36: None for an id the store does not hold
get_session(sid) == IF sid \in DOMAIN sessions THEN sessions[sid] ELSE None

\* update_session, line 46
update_session(sid, messages) ==
    /\ env.store
    /\ sessions' = [x \in DOMAIN sessions \cup {sid} |->
                      IF x = sid THEN messages ELSE sessions[x]]
    /\ UNCHANGED <<conversation_history, histOwner, search_cache, constructed, req, env>>

\* add_message_to_session, lines 56-57
add_message_to_session(sid, message) ==
    /\ env.store
    /\ sid \in DOMAIN sessions
    /\ Len(sessions[sid]) < MaxHistory
    /\ sessions' = [sessions EXCEPT ![sid] = Append(@, message)]
    /\ UNCHANGED <<conversation_history, histOwner, search_cache, constructed, req, env>>

---------------------------------------------------------------------------

Next ==
    \/ Construct
    \/ \E r \in Requests : HttpRequest(r)
    \/ \E r \in Requests : DirectCall(r)
    \/ \E r \in Requests : StreamProjectStart(r)
    \/ \E r \in Requests : CollectCheckCache(r)
    \/ \E r \in Requests : CollectCached(r)
    \/ \E r \in Requests : ExecStarted(r)
    \/ \E r \in Requests : ExecChunk(r)
    \/ \E r \in Requests : ExecSearching(r)
    \/ \E r \in Requests : ExecRetryNotice(r)
    \/ \E r \in Requests : ExecFailed(r)
    \/ \E r \in Requests : ExecWaiting(r)
    \/ \E r \in Requests : ExecAllFailed(r)
    \/ \E r \in Requests : CollectStore(r)
    \/ \E r \in Requests : CollectPausing(r)
    \/ \E r \in Requests : ProjectMarker(r)
    \/ \E r \in Requests : SynthesisStart(r)
    \/ \E r \in Requests : StreamFollowupStart(r)
    \/ \E r \in Requests : StreamContent(r)
    \/ \E r \in Requests : Abandon(r)
    \/ \E r \in Requests : ProcessRespond(r)
    \/ \E sid \in SessionIds : create_session(sid)
    \/ \E sid \in SessionIds, messages \in StoreHistories : update_session(sid, messages)
    \/ \E sid \in SessionIds, message \in StoreMessages : add_message_to_session(sid, message)

Spec == Init /\ [][Next]_vars

---------------------------------------------------------------------------
(* Reading a request's record *)

\* where the generator is, or was when its consumer left
Position(rec) == IF rec.pc = "abandoned" THEN rec.at ELSE rec.pc

ExecutorPositions ==
    {"e_started", "e_searching", "e_chunk", "e_retry_notice", "e_failed", "e_waiting",
     "e_allfailed", "e_fallback", "e_success", "e_result"}

\* the agent's answers to the calls made for query i
AnswersOf(rec, i) == SelectSeq(rec.answers, LAMBDA a : a.q = i)

MarkerTokens == {"rate-limited", "Rate-Limited", "unable to complete", "UNABLE TO COMPLETE"}
HasMarker(text) == \E j \in DOMAIN text : text[j] \in MarkerTokens
RateLimitedAnswer(resp) ==
    resp.end = "end" /\ \E k \in DOMAIN resp.chunks : HasMarker(resp.chunks[k])
FailedAnswer(resp) == resp.end = "raise" \/ RateLimitedAnswer(resp)
AllAttemptsFailed(rec, i) ==
    /\ Len(AnswersOf(rec, i)) = max_retries
    /\ \A k \in 1..max_retries : FailedAnswer(AnswersOf(rec, i)[k].resp)

\* the executor of query i has ended: the collector has gone on
ExecutorEnded(rec, i) ==
    /\ i \in 1..rec.idx
    /\ \E k \in DOMAIN rec.trace : rec.trace[k] = Ev("executor", i, 0)
    /\ i < rec.idx \/ Position(rec) \notin ExecutorPositions \cup {"c_researching"}

FirstIndex(out, chunk) ==
    CHOOSE p \in DOMAIN out : out[p] = chunk /\ \A k \in 1..(p - 1) : out[k] # chunk

\* the chunks emitted for query i after its "researching" event: those of the
\* executor, up to the collector's next event
QueryChunks(rec, i) ==
    LET first == FirstIndex(rec.out, ResearchingChunk(rec.queries[i]))
        stops == { p \in (first + 1)..Len(rec.out) :
                     \/ rec.out[p] = PausingChunk
                     \/ p > first + 1 /\ rec.out[p - 1] = CachedChunk(rec.queries[i]) }
        stop == IF stops = {} THEN Len(rec.out) + 1
                ELSE CHOOSE p \in stops : \A x \in stops : p <= x
    IN SubSeq(rec.out, first + 1, stop - 1)

LastTwo(chunks) == SubSeq(chunks, Len(chunks) - 1, Len(chunks))

IsSubSeq(a, b) == \E k \in 0..(Len(b) - Len(a)) : SubSeq(b, k + 1, k + Len(a)) = a

RequestStep(r) ==
    \/ StreamProjectStart(r) \/ CollectCheckCache(r) \/ CollectCached(r)
    \/ ExecStarted(r) \/ ExecChunk(r) \/ ExecSearching(r) \/ ExecRetryNotice(r)
    \/ ExecFailed(r) \/ ExecWaiting(r) \/ ExecAllFailed(r) \/ CollectStore(r)
    \/ CollectPausing(r) \/ ProjectMarker(r) \/ SynthesisStart(r)
    \/ StreamFollowupStart(r) \/ StreamContent(r)

---------------------------------------------------------------------------
(* C1: when each of the max_retries attempts for a query ends in a
   rate-limit-marked response or in an exception of the Search Capability,
   the executor ends, its last two chunks are the final-failure status chunk
   and then the fallback text of that query, no further attempt is made, and
   no exception leaves the generator: a request fails only in a model call,
   and a generator inside the executor can always be resumed. *)
C1_FallbackAfterRetries ==
    \A r \in Requests :
        LET rec == req[r]
        IN /\ rec.pc = "failed" => rec.reply # NoResponse
           /\ rec.pc \in ExecutorPositions => ENABLED RequestStep(r)
           /\ \A i \in 1..rec.idx :
                /\ Len(AnswersOf(rec, i)) <= max_retries
                /\ AllAttemptsFailed(rec, i) /\ i = rec.idx
                     => Position(rec) \notin {"e_started", "e_searching",
                                              "e_success", "e_result"}
                /\ AllAttemptsFailed(rec, i) /\ ExecutorEnded(rec, i)
                     => LastTwo(QueryChunks(rec, i)) =
                          <<AllFailedChunk, _generate_fallback_response(rec.queries[i])>>

C1_Witness ==
    \E r \in Requests :
        LET rec == req[r]
        IN \E i \in 1..rec.idx :
              /\ AllAttemptsFailed(rec, i)
              /\ ExecutorEnded(rec, i)
              /\ \E k \in 1..max_retries : AnswersOf(rec, i)[k].resp.end = "raise"
              /\ \E k \in 1..max_retries : RateLimitedAnswer(AnswersOf(rec, i)[k].resp)

---------------------------------------------------------------------------
(* C2: for any interleaving of NewProject and Followup requests, once every
   request has completed, each user message of the history is immediately
   followed by the assistant message of the same exchange, and no assistant
   message comes without its user message right before it. *)
C2_UserThenAssistant ==
    (\A r \in Requests : req[r].pc \in {"idle", "done"})
    => \A i \in DOMAIN conversation_history :
          /\ conversation_history[i].role = "user"
               => /\ i < Len(conversation_history)
                  /\ conversation_history[i + 1].role = "assistant"
                  /\ histOwner[i + 1] = histOwner[i]
          /\ conversation_history[i].role = "assistant"
               => /\ i > 1
                  /\ conversation_history[i - 1].role = "user"
                  /\ histOwner[i - 1] = histOwner[i]

---------------------------------------------------------------------------
(* C3: the messages appended while handling a request of one session never
   appear in the history that a request of another session reads as model
   context or appends to. *)
SessionOf(r) == req[r].call.session_id

C3_HistoryOwnedBySession ==
    /\ \A r \in Requests :
          \A k \in DOMAIN req[r].ctxOwner : SessionOf(req[r].ctxOwner[k]) = SessionOf(r)
    /\ \A i, j \in DOMAIN histOwner : SessionOf(histOwner[i]) = SessionOf(histOwner[j])

---------------------------------------------------------------------------
(* C4: when the collector reaches a query that is in the instance's cache,
   its step emits the cache-hit status event and its next step appends a
   SearchResult holding the cached text; neither step starts the executor
   nor calls the Search Capability. *)
C4_CacheHitSkipsExecutor ==
    [][\A r \in Requests :
         /\ ( /\ req[r].pc = "c_researching"
              /\ req'[r].pc \notin {"c_researching", "abandoned"}
              /\ CurrentQuery(req[r]) \in DOMAIN search_cache[req[r].asst] )
            => /\ req'[r].pc = "c_cached"
               /\ req'[r].out = Append(req[r].out, CachedChunk(CurrentQuery(req[r])))
               /\ req'[r].search_results = req[r].search_results
               /\ req'[r].trace = req[r].trace
               /\ req'[r].answers = req[r].answers
         /\ ( /\ req[r].pc = "c_cached"
              /\ req'[r].pc \notin {"c_cached", "abandoned"} )
            => /\ req'[r].search_results =
                    Append(req[r].search_results,
                           [query |-> CurrentQuery(req[r]),
                            results |-> search_cache[req[r].asst][CurrentQuery(req[r])]])
               /\ req'[r].trace = req[r].trace
               /\ req'[r].answers = req[r].answers
      ]_vars

C4_Witness ==
    \E r \in Requests :
        LET rec == req[r]
        IN \E i \in DOMAIN rec.search_results :
              /\ \E p \in DOMAIN rec.out : rec.out[p] = CachedChunk(rec.queries[i])
              /\ rec.queries[i] \in DOMAIN search_cache[rec.asst]
              /\ rec.search_results[i].results = search_cache[rec.asst][rec.queries[i]]
              /\ AnswersOf(rec, i) = <<>>

---------------------------------------------------------------------------
(* C5: the text stored in the cache for an executed query is the
   concatenated result with every '*' stripped; so the result appended on a
   later cache hit holds no '*' and equals the result appended when the
   query was executed. *)
CacheHit(rec, i) ==
    /\ i \in DOMAIN rec.search_results
    /\ \E p \in DOMAIN rec.out : rec.out[p] = CachedChunk(rec.queries[i])
    /\ AnswersOf(rec, i) = <<>>

ExecutedBy(rec, query) ==
    { j \in DOMAIN rec.search_results :
        rec.search_results[j].query = query /\ AnswersOf(rec, j) # <<>> }

C5_CacheHoldsStrippedText ==
    /\ \A a \in Assistants : \A q \in DOMAIN search_cache[a] :
          search_cache[a][q] = StripStars(search_cache[a][q])
    /\ \A r \in Requests : \A i \in DOMAIN req[r].search_results :
          CacheHit(req[r], i)
          => /\ ~Contains(req[r].search_results[i].results, "*")
             /\ \A r0 \in Requests : \A j \in ExecutedBy(req[r0], req[r].queries[i]) :
                   req[r0].asst = req[r].asst
                   => req[r0].search_results[j] = req[r].search_results[i]

---------------------------------------------------------------------------
(* C6: when every response of the Search Capability to a query holds
   "rate-limited" (in any letter case), the executor emits exactly
   max_retries retry-notice chunks for the query, all of them before the
   fallback text, and the fallback text with its '*' removed (the collector
   strips them from every result) is part of the query's SearchResult. *)
IsRetryNotice(chunk) ==
    chunk # <<>> /\ chunk[1] = "\nSearch encountered rate limits. Retrying in "

AlwaysRateLimited(rec, i) ==
    /\ AnswersOf(rec, i) # <<>>
    /\ \A k \in DOMAIN AnswersOf(rec, i) :
          LET resp == AnswersOf(rec, i)[k].resp
          IN /\ resp.end = "end"
             /\ \E c \in DOMAIN resp.chunks : \E j \in DOMAIN resp.chunks[c] :
                   resp.chunks[c][j] \in {"rate-limited", "Rate-Limited"}

RetryNoticesThenFallback(rec, i) ==
    LET chunks == QueryChunks(rec, i)
        notices == { p \in DOMAIN chunks : IsRetryNotice(chunks[p]) }
    IN /\ Cardinality(notices) = max_retries
       /\ \E f \in DOMAIN chunks :
             /\ chunks[f] = _generate_fallback_response(rec.queries[i])
             /\ \A p \in notices : p < f

C6_RetryNoticesBeforeFallback ==
    \A r \in Requests : \A i \in DOMAIN req[r].search_results :
        AlwaysRateLimited(req[r], i)
        => /\ RetryNoticesThenFallback(req[r], i)
           /\ IsSubSeq(StripStars(_generate_fallback_response(req[r].queries[i])),
                       req[r].search_results[i].results)

(* C6 as stated: under the same condition the fallback text itself, with
   its '*', is part of the query's SearchResult. *)
C6_Original ==
    \A r \in Requests : \A i \in DOMAIN req[r].search_results :
        AlwaysRateLimited(req[r], i)
        => /\ RetryNoticesThenFallback(req[r], i)
           /\ IsSubSeq(_generate_fallback_response(req[r].queries[i]),
                       req[r].search_results[i].results)

C6_Witness ==
    \E r \in Requests : \E i \in DOMAIN req[r].search_results :
        /\ AlwaysRateLimited(req[r], i)
        /\ Contains(req[r].queries[i], "*")
        /\ RetryNoticesThenFallback(req[r], i)

---------------------------------------------------------------------------
(* C7: in stream_project and stream_followup the user message is appended
   to the history before the first call of the agent or of the model is
   issued; the assistant message is appended only after the last chunk of
   the model's response has been accumulated, and it holds the whole
   response; a stream whose consumer stops pulling before the end never
   appends an assistant message. *)
Events(rec, names) == { i \in DOMAIN rec.trace : rec.trace[i].e \in names }

OwnMessages(r, role) ==
    { i \in DOMAIN conversation_history :
        histOwner[i] = r /\ conversation_history[i].role = role }

UserMessageOf(rec) ==
    IF rec.kind = "project" THEN ProjectUserMessage(rec.input)
    ELSE FollowupUserMessage(rec.input)

C7_AppendOrder ==
    \A r \in Requests :
        LET rec == req[r]
            calls == Events(rec, {"search_call", "model_call"})
            users == Events(rec, {"user_append"})
            assts == Events(rec, {"assistant_append"})
        IN /\ \A c \in calls : \E u \in users : u < c
           /\ calls # {} => \E i \in OwnMessages(r, "user") :
                                conversation_history[i] = UserMessageOf(rec)
           /\ \A a \in assts :
                 /\ a = Len(rec.trace)
                 /\ rec.pc = "done"
                 /\ rec.resp.chunks = <<>>
                 /\ rec.response_content = Flatten(rec.reply.chunks)
           /\ \A i \in OwnMessages(r, "assistant") :
                 /\ assts # {}
                 /\ conversation_history[i] = AssistantMessage(Flatten(rec.reply.chunks))
           /\ rec.pc = "abandoned"
                 => assts = {} /\ OwnMessages(r, "assistant") = {}

C7_Witness ==
    \E r \in Requests :
        /\ req[r].pc = "done"
        /\ req[r].kind = "project"
        /\ Len(DropEmpty(req[r].reply.chunks)) >= 2
        /\ Events(req[r], {"search_call"}) # {}
        /\ OwnMessages(r, "assistant") # {}

\* the consumer left while the model's response was being streamed
C7_WitnessAbandoned ==
    \E r \in Requests :
        /\ req[r].pc = "abandoned"
        /\ req[r].at \in {"p_stream", "f_stream"}
        /\ OwnMessages(r, "user") # {}

---------------------------------------------------------------------------
(* C8: in a stream_project run where the agent succeeds on the first attempt
   for all NumQueries queries, the output holds exactly NumQueries "Starting
   search for" chunks and exactly NumQueries "Search completed successfully"
   chunks, all of them before exactly one "[LLM Synthesis]" chunk, and every
   content chunk streamed by the model comes after that chunk. *)
AllFirstAttempt(rec) ==
    /\ Len(rec.answers) = NumQueries
    /\ \A i \in 1..NumQueries :
          /\ Len(AnswersOf(rec, i)) = 1
          /\ ~FailedAnswer(AnswersOf(rec, i)[1].resp)

IsStarting(chunk) == chunk # <<>> /\ chunk[1] = "Starting search for: "

C8_FirstAttemptStream ==
    \A r \in Requests :
        LET rec == req[r]
            starts == { p \in DOMAIN rec.out : IsStarting(rec.out[p]) }
            successes == { p \in DOMAIN rec.out : rec.out[p] = SuccessChunk }
            markers == { p \in DOMAIN rec.out : rec.out[p] = SynthesisChunk }
        IN rec.kind = "project" /\ AllFirstAttempt(rec)
             /\ Position(rec) \in {"p_marker", "p_stream", "done", "failed"}
           => /\ Cardinality(starts) = NumQueries
              /\ Cardinality(successes) = NumQueries
              /\ Cardinality(markers) = 1
              /\ \A m \in markers :
                    /\ \A p \in starts \cup successes : p < m
                    /\ Flatten(SubSeq(rec.out, m + 1, Len(rec.out)))
                         = rec.response_content

---------------------------------------------------------------------------
(* C9: a stream_project or stream_followup run that reaches its end with no
   step of another run in between extends the history by exactly two
   entries, its user message followed by its assistant message, and leaves
   the earlier entries as they were, also when the same input was processed
   before. *)
C9_TwoEntriesPerExchange ==
    \A r \in Requests :
        req[r].pc = "done" /\ req[r].alone
        => req[r].hist1 = req[r].hist0 \o
               <<UserMessageOf(req[r]), AssistantMessage(req[r].response_content)>>

C9_Witness ==
    \E r1, r2 \in Requests :
        /\ r1 # r2
        /\ req[r1].pc = "done" /\ req[r2].pc = "done"
        /\ req[r1].alone /\ req[r2].alone
        /\ req[r1].kind = req[r2].kind /\ req[r1].input = req[r2].input
        /\ req[r1].response_content = req[r2].response_content
        /\ req[r2].hist0 = req[r1].hist1
        /\ conversation_history = req[r2].hist1
        /\ Len(conversation_history) = 4

---------------------------------------------------------------------------
(* C10: in every reachable state every session history, that is every entry
   of the session store and the history the assistant appends the user and
   assistant messages to, begins with exactly one system message. *)
StartsWithOneSystemMessage(history) ==
    /\ history[1].role = "system"
    /\ \A i \in 2..Len(history) : history[i].role # "system"

C10_HistoryStartsWithSystem ==
    /\ \A sid \in DOMAIN sessions : StartsWithOneSystemMessage(sessions[sid])
    /\ conversation_history # <<>> => StartsWithOneSystemMessage(conversation_history)

---------------------------------------------------------------------------
(* C11: a request of a route whose session id is empty, absent or unknown
   to the session store is never rejected; once its exchange has begun a new
   session has been created for it, and for a follow-up the history its user
   message was appended to held exactly the system message. *)
NoKnownSession(rec) ==
    /\ rec.call.via = "http"
    /\ create_llm(rec.call.model_type, env.keys) = 200
    /\ get_session(rec.call.session_id) = None

C11_NewSessionForUnknownId ==
    \A r \in Requests :
        LET rec == req[r]
        IN rec.pc # "idle" /\ NoKnownSession(rec)
           => /\ rec.pc # "rejected"
              /\ Events(rec, {"user_append"}) # {}
                   => /\ \E sid \in DOMAIN sessions :
                            sessions[sid][1] = SystemMessage(ARTIST_ASSISTANT_PROMPT)
                      /\ rec.kind = "followup"
                           => rec.hist0 = <<SystemMessage(ARTIST_ASSISTANT_PROMPT)>>

---------------------------------------------------------------------------
(* C12: whatever the agent does at each call (content, a rate-limit marker
   or an exception, on any attempt of any query) _collect_search_results
   completes its pass: while it runs it can always be resumed, it appends
   one SearchResult per planned query in the order of the queries, and its
   last event is the one summary event, which reports NumQueries queries. *)
CollectorPositions ==
    ExecutorPositions \cup {"c_researching", "c_cached", "c_pausing"}

AfterCollector == {"c_summary", "p_marker", "p_stream", "done", "failed"}

C12_CollectorCompletes ==
    \A r \in Requests :
        LET rec == req[r]
            planned == get_search_queries(rec.input)
            summaries == { p \in DOMAIN rec.out :
                             /\ rec.out[p] # <<>>
                             /\ rec.out[p][1] = "\nAll research completed. Found information for " }
        IN rec.kind = "project"
           => /\ rec.pc \in CollectorPositions => ENABLED RequestStep(r)
              /\ Len(rec.search_results) <= NumQueries
              /\ \A j \in DOMAIN rec.search_results :
                    rec.search_results[j].query = planned[j]
              /\ Position(rec) \in CollectorPositions
                    => /\ summaries = {}
                       /\ Len(rec.search_results) \in {rec.idx - 1, rec.idx}
              /\ Position(rec) \in AfterCollector
                    => /\ Len(rec.search_results) = NumQueries
                       /\ Cardinality(summaries) = 1
                       /\ \A p \in summaries :
                             /\ rec.out[p] = SummaryChunk(NumQueries)
                             /\ p = Len(rec.out) \/ rec.out[p + 1] = SynthesisChunk

C12_Witness ==
    \E r \in Requests :
        LET rec == req[r]
        IN /\ Position(rec) \in AfterCollector
           /\ \E k \in DOMAIN rec.answers : rec.answers[k].resp.end = "raise"
           /\ \E k \in DOMAIN rec.answers : RateLimitedAnswer(rec.answers[k].resp)
           /\ \E i \in 1..NumQueries : AllAttemptsFailed(rec, i)

---------------------------------------------------------------------------
(* C13: every request to POST /process that is processed without an error
   of the provider or of the configuration is answered with a response
   object in which response and session_id are both strings. *)
C13_ProcessReturnsStrings ==
    \A r \in Requests :
        LET rec == req[r]
        IN rec.call.method = "/process" /\ rec.pc = "done" /\ rec.http # NoHttp
           => /\ rec.http.status = 200
              /\ IsStr(rec.http.response)
              /\ IsStr(rec.http.session_id)

---------------------------------------------------------------------------
(* C14: when the model's stream raises during the synthesis of
   stream_project or during stream_followup, the exception leaves the
   generator as its end: no further model call is made for the exchange, the
   generator cannot be resumed, and no assistant message is appended to the
   history; a generator that ends normally has a model that did not raise. *)
C14_ProviderFailureIsTerminal ==
    \A r \in Requests :
        LET rec == req[r]
        IN /\ rec.pc = "failed"
              => /\ rec.reply.end = "raise"
                 /\ rec.response_content = Flatten(rec.reply.chunks)
                 /\ Cardinality(Events(rec, {"model_call"})) = 1
                 /\ Events(rec, {"assistant_append"}) = {}
                 /\ OwnMessages(r, "assistant") = {}
                 /\ ~ENABLED RequestStep(r)
           /\ rec.pc = "done" => rec.reply.end = "end"

C14_Witness ==
    \E r \in Requests :
        /\ req[r].pc = "failed" /\ req[r].kind = "project"
        /\ req[r].response_content # <<>>
        /\ OwnMessages(r, "user") # {}

\* the same in stream_followup
C14_WitnessFollowup ==
    \E r \in Requests :
        /\ req[r].pc = "failed" /\ req[r].kind = "followup"
        /\ OwnMessages(r, "user") # {}

---------------------------------------------------------------------------
(* C15: on /process and on /process/stream a request is dispatched to the
   follow-up operation exactly when its body holds a non-empty
   follow_up_question, and to the project operation with project_description
   in every other case; one operation runs per request. *)
RoutedRequest(rec) == rec.call.via = "http" /\ rec.pc \notin {"idle", "rejected"}

OneOperation(rec) ==
    /\ rec.kind = "followup" => rec.input = rec.call.follow_up_question
    /\ rec.kind = "project" => rec.input = rec.call.project_description
    /\ rec.kind \in {"followup", "project"}
    /\ Cardinality(Events(rec, {"user_append"})) <= 1
    /\ rec.kind = "followup" => rec.queries = <<>> /\ rec.answers = <<>>

C15_DispatchOnFollowUp ==
    \A r \in Requests :
        RoutedRequest(req[r])
        => /\ req[r].kind = "followup"
                <=> req[r].call.follow_up_question \notin {None, <<>>}
           /\ OneOperation(req[r])

(* C15 as stated: the request is dispatched to the follow-up operation
   exactly when follow_up_question is present in the body. *)
C15_Original ==
    \A r \in Requests :
        RoutedRequest(req[r])
        => /\ req[r].kind = "followup" <=> req[r].call.follow_up_question # None
           /\ OneOperation(req[r])

C15_Witness ==
    \E r \in Requests :
        /\ req[r].call.method = "/process"
        /\ req[r].call.follow_up_question = <<>>
        /\ req[r].call.project_description = Description1
        /\ req[r].kind = "project"
        /\ req[r].pc = "done"

---------------------------------------------------------------------------
(* C16: a request whose model type is neither openai nor gemini, or whose
   provider has no credentials configured, is rejected when the assistant is
   constructed, before any history append, search call or model call, and
   the rejection is a client error (HTTP 4xx). *)
C16_RejectedAsClientError ==
    \A r \in Requests :
        LET rec == req[r]
        IN rec.call.via = "http" /\ rec.pc # "idle"
             /\ ( \/ Lower(rec.call.model_type) \notin Providers
                  \/ Lower(rec.call.model_type) \notin env.keys )
           => /\ rec.pc = "rejected"
              /\ rec.trace = <<>>
              /\ \A i \in DOMAIN histOwner : histOwner[i] # r
              /\ rec.http.status \in 400..499

---------------------------------------------------------------------------
(* C17: for every project description get_search_queries returns exactly
   NumQueries queries, in the order of the templates, each holding the
   description as a substring. *)
TemplateHeads ==
    <<"trending tools for ", "best software for ", "how to set up ",
      "tips and best practices for ", "free and paid tools comparison for ">>

C17_FiveQueriesWithDescription ==
    \A r \in Requests :
        req[r].queries # <<>>
        => /\ Len(req[r].queries) = NumQueries
           /\ \A i \in 1..NumQueries :
                 /\ req[r].queries[i][1] = TemplateHeads[i]
                 /\ IsSubSeq(req[r].input, Tail(req[r].queries[i]))

C17_Witness ==
    \E r \in Requests :
        /\ req[r].queries # <<>>
        /\ Len(req[r].input) > 1
        /\ req[r].idx = NumQueries

---------------------------------------------------------------------------
(* Reading the attempts of a query off the output *)

\* the k-th smallest element of a set of positions
Nth(S, k) == CHOOSE p \in S : Cardinality({ x \in S : x < p }) = k - 1

\* the positions in the chunks of a query at which an attempt starts
StartsIn(chunks, query) ==
    { p \in DOMAIN chunks : chunks[p] = StartingChunk(query) }

AttemptStarts(rec, i) == StartsIn(QueryChunks(rec, i), rec.queries[i])

\* the chunks of the k-th attempt of a query, after its "Starting" chunk and
\* up to the next attempt or to the code after the loop
AttemptIn(chunks, query, k) ==
    LET starts == StartsIn(chunks, query)
        from == Nth(starts, k)
        ends == { p \in DOMAIN chunks :
                    p > from /\ (p \in starts \/ chunks[p] = AllFailedChunk) }
        to == IF ends = {} THEN Len(chunks) + 1
              ELSE CHOOSE p \in ends : \A x \in ends : p <= x
    IN SubSeq(chunks, from + 1, to - 1)

\* query i of the request was executed and its executor has ended
Executed(rec, i) == ExecutorEnded(rec, i) /\ AnswersOf(rec, i) # <<>>

---------------------------------------------------------------------------
(* C18: with a streaming agent and with a blocking agent, an attempt that
   completes without a rate-limit marker makes the executor emit the success
   status chunk as its last chunk and end without another attempt. *)
C18_SuccessChunkEndsExecutor ==
    \A r \in Requests : \A i \in 1..req[r].idx :
        LET rec == req[r]
            answers == AnswersOf(rec, i)
            chunks == QueryChunks(rec, i)
        IN Executed(rec, i) /\ ~FailedAnswer(answers[Len(answers)].resp)
           => /\ chunks[Len(chunks)] = SuccessChunk
              /\ Cardinality(AttemptStarts(rec, i)) = Len(answers)

---------------------------------------------------------------------------
(* C19: for each query that is executed (not served from the cache) the
   results text of its SearchResult is the concatenation, in the order of
   emission, of every chunk forwarded for the query, the status chunks and
   the chunks of failed attempts included, with every '*' removed. *)
C19_ResultIsStrippedConcatenation ==
    \A r \in Requests : \A i \in DOMAIN req[r].search_results :
        Executed(req[r], i)
        => req[r].search_results[i].results =
               StripStars(Flatten(QueryChunks(req[r], i)))

C19_Witness ==
    \E r \in Requests : \E i \in DOMAIN req[r].search_results :
        /\ Executed(req[r], i)
        /\ Len(AnswersOf(req[r], i)) > 1
        /\ Contains(Flatten(QueryChunks(req[r], i)), "*")
        /\ \E k \in DOMAIN AnswersOf(req[r], i) : AnswersOf(req[r], i)[k].resp.end = "raise"

---------------------------------------------------------------------------
(* C20: an attempt is treated as rate-limited whenever a streamed chunk, or
   the result of a blocking agent, holds "rate-limited" or "unable to
   complete" in any letter case: the executor emits the retry notice of the
   attempt, forwards neither that chunk nor any later chunk of the attempt,
   sleeps, and goes on with the next attempt (after the last one, with the
   code after the loop); a chunk without the phrases is forwarded
   unchanged. *)
MarkedChunksOf(resp) == { c \in DOMAIN resp.chunks : HasMarker(resp.chunks[c]) }

Slept(rec, i, k) ==
    \E e \in DOMAIN rec.trace :
        /\ rec.trace[e].e = "sleep" /\ rec.trace[e].q = i
        /\ rec.trace[e].t - Backoff(k - 1, 0) \in 0..TimeScale

GoesOn(chunks, query, answers, k) ==
    IF k < max_retries THEN Len(answers) > k
    ELSE LastTwo(chunks) = <<AllFailedChunk, _generate_fallback_response(query)>>

\* what the executor emitted for the attempt that got the answer resp
ExpectedOfAttempt(resp, k, streaming) ==
    IF streaming
    THEN LET marked == MarkedChunksOf(resp)
         IN IF marked # {}
            THEN [retried |-> TRUE,
                  chunks |-> Append(SubSeq(resp.chunks, 1, Nth(marked, 1) - 1),
                                    RetryNoticeChunk(k - 1))]
            ELSE [retried |-> FALSE, chunks |-> resp.chunks]
    ELSE IF HasMarker(Flatten(resp.chunks))
         THEN [retried |-> TRUE, chunks |-> <<SearchingChunk, RetryNoticeChunk(k - 1)>>]
         ELSE [retried |-> FALSE, chunks |-> <<SearchingChunk, Flatten(resp.chunks)>>]

C20_MarkedAttemptIsRetried ==
    \A r \in Requests : \A i \in 1..req[r].idx :
        Executed(req[r], i)
        => LET rec == req[r]
               chunks == QueryChunks(rec, i)
               answers == AnswersOf(rec, i)
           IN \A k \in DOMAIN answers :
                 LET resp == answers[k].resp
                     expected == ExpectedOfAttempt(resp, k, env.hasStream)
                     emitted == AttemptIn(chunks, rec.queries[i], k)
                 IN env.hasStream \/ resp.end = "end"
                    => IF expected.retried
                       THEN /\ emitted = expected.chunks
                            /\ Slept(rec, i, k)
                            /\ GoesOn(chunks, rec.queries[i], answers, k)
                       ELSE SubSeq(emitted, 1, Len(expected.chunks)) = expected.chunks

C20_Witness ==
    \E r \in Requests : \E i \in 1..req[r].idx :
        /\ env.hasStream
        /\ Executed(req[r], i)
        /\ \E k \in DOMAIN AnswersOf(req[r], i) :
              LET resp == AnswersOf(req[r], i)[k].resp
              IN /\ Len(resp.chunks) > 1
                 /\ \E j \in DOMAIN resp.chunks[1] :
                       resp.chunks[1][j] \in {"Rate-Limited", "UNABLE TO COMPLETE"}

\* the same with a blocking agent
C20_WitnessBlocking ==
    \E r \in Requests : \E i \in 1..req[r].idx :
        /\ ~env.hasStream
        /\ Executed(req[r], i)
        /\ \E k \in DOMAIN AnswersOf(req[r], i) :
              /\ AnswersOf(req[r], i)[k].resp.end = "end"
              /\ HasMarker(Flatten(AnswersOf(req[r], i)[k].resp.chunks))
        /\ ~FailedAnswer(AnswersOf(req[r], i)[Len(AnswersOf(req[r], i))].resp)

---------------------------------------------------------------------------
(* Reading the sleeps of a query off the trace *)

IsBackoffSleep(ev) == ev.e = "sleep"

\* the backoff sleeps of a pass, and those of its query i, in order
AllBackoffSleeps(rec) == SelectSeq(rec.trace, IsBackoffSleep)
SleepsOfQuery(sleeps, i) == SelectSeq(sleeps, LAMBDA ev : ev.q = i)
BackoffSleeps(rec, i) == SleepsOfQuery(AllBackoffSleeps(rec), i)

BaseDelay(attempt) == retry_delay * Pow2(attempt) * TimeScale

---------------------------------------------------------------------------
(* C21: the delay slept after failed attempt i (from 0, below max_retries)
   is at least retry_delay * 2^i and at most retry_delay * 2^i + 1, after a
   rate-limit marker and after an exception alike; the upper end is reached
   when the float sum rounds up. *)
C21_BackoffInClosedInterval ==
    \A r \in Requests :
      LET all == AllBackoffSleeps(req[r])
      IN \A i \in 1..req[r].idx :
        LET sleeps == SleepsOfQuery(all, i)
        IN /\ Len(sleeps) <= max_retries
           /\ \A k \in DOMAIN sleeps :
                 /\ sleeps[k].t >= BaseDelay(k - 1)
                 /\ sleeps[k].t <= BaseDelay(k - 1) + TimeScale

(* C21 as stated: the delay is at least retry_delay * 2^i and strictly less
   than retry_delay * 2^i + 1. *)
C21_Original ==
    \A r \in Requests :
      LET all == AllBackoffSleeps(req[r])
      IN \A i \in 1..req[r].idx :
        LET sleeps == SleepsOfQuery(all, i)
        IN /\ Len(sleeps) <= max_retries
           /\ \A k \in DOMAIN sleeps :
                 /\ sleeps[k].t >= BaseDelay(k - 1)
                 /\ sleeps[k].t < BaseDelay(k - 1) + TimeScale

C21_Witness ==
    \E r \in Requests : \E i \in 1..req[r].idx :
        LET sleeps == BackoffSleeps(req[r], i)
        IN /\ Len(sleeps) = max_retries
           /\ \E k \in DOMAIN sleeps : sleeps[k].t = BaseDelay(k - 1) + TimeScale
           /\ \E k \in DOMAIN sleeps :
                 /\ sleeps[k].t > BaseDelay(k - 1)
                 /\ sleeps[k].t < BaseDelay(k - 1) + TimeScale

\* the same after an exception of the agent
C21_WitnessException ==
    \E r \in Requests : \E i \in 1..req[r].idx :
        /\ \E k \in DOMAIN BackoffSleeps(req[r], i) :
              BackoffSleeps(req[r], i)[k].t = BaseDelay(k - 1) + TimeScale
        /\ \A k \in DOMAIN AnswersOf(req[r], i) : AnswersOf(req[r], i)[k].resp.end = "raise"

---------------------------------------------------------------------------
(* C22: across the events of one research pass the accumulated results only
   grow: what an earlier event carried is carried unchanged and at the same
   position by every later event, and the "researching" event of the k-th
   query carries exactly the results of queries 1..k-1. *)
IsPrefixOf(a, b) == Len(a) <= Len(b) /\ SubSeq(b, 1, Len(a)) = a

\* the list yielded next to a chunk is the list as it is when the chunk is emitted
CarriesQueriesUpTo(rec, n) ==
    /\ Len(rec.search_results) = n
    /\ \A j \in 1..n : rec.search_results[j].query = rec.queries[j]

ResultsOnlyGrow(r) ==
    (req[r].kind = "project" /\ req'[r].kind = "project")
        => /\ IsPrefixOf(req[r].search_results, req'[r].search_results)
           /\ (req'[r].pc = "c_researching" /\ Len(req'[r].out) > Len(req[r].out))
                 => CarriesQueriesUpTo(req'[r], req'[r].idx - 1)

C22_ResultsOnlyGrow == [][\A r \in Requests : ResultsOnlyGrow(r)]_vars

C22_Witness ==
    \E r \in Requests :
        /\ req[r].pc = "c_researching" /\ req[r].idx = NumQueries
        /\ CarriesQueriesUpTo(req[r], NumQueries - 1)
        /\ \E j, k \in 1..(NumQueries - 1) :
              /\ req[r].search_results[j].results # <<>>
              /\ req[r].search_results[j].results # req[r].search_results[k].results

---------------------------------------------------------------------------
(* C23: between every two consecutive queries of a research pass the
   collector emits a pacing event and waits a fixed delay of 1 time unit,
   whether the earlier query was executed or served from the cache. *)
PacedAfter(rec, i) ==
    /\ \E e \in DOMAIN rec.trace :
          /\ rec.trace[e].e = "pace" /\ rec.trace[e].q = i
          /\ rec.trace[e].t = PacingDelay * TimeScale
    /\ \E p \in DOMAIN rec.out :
          /\ rec.out[p] = PausingChunk
          /\ p > FirstIndex(rec.out, ResearchingChunk(rec.queries[i]))
          /\ p < FirstIndex(rec.out, ResearchingChunk(rec.queries[i + 1]))

C23_PacingBetweenQueries ==
    \A r \in Requests :
        (req[r].kind = "project" /\ req[r].pc # "created")
            => \A i \in 1..(req[r].idx - 1) : PacedAfter(req[r], i)

---------------------------------------------------------------------------
(* C24: a query whose retries were all exhausted is stored in the cache
   together with its fallback text; every later research pass on the same
   assistant instance serves that query from the cache and never re-attempts
   the search. *)
\* pass rec has taken the cache check of its query j
CacheChecked(rec, j) ==
    j \in 1..rec.idx /\ (j < rec.idx \/ Position(rec) # "c_researching")

ServedFromCache(rec, j, text) ==
    /\ AnswersOf(rec, j) = <<>>
    /\ \A e \in DOMAIN rec.trace :
          rec.trace[e].q = j => rec.trace[e].e \notin {"executor", "search_call", "sleep"}
    /\ \E p \in DOMAIN rec.out : rec.out[p] = CachedChunk(rec.queries[j])
    /\ j \in DOMAIN rec.search_results
          => rec.search_results[j] = [query |-> rec.queries[j], results |-> text]

C24_FailedSearchStaysCached ==
    \A r1 \in Requests : \A i \in DOMAIN req[r1].search_results :
        AllAttemptsFailed(req[r1], i) =>
            LET q == req[r1].queries[i]
                a == req[r1].asst
            IN /\ q \in DOMAIN search_cache[a]
               /\ IsSubSeq(_generate_fallback_response(q), search_cache[a][q])
               /\ \A r2 \in Requests :
                     (r2 > r1 /\ req[r2].asst = a /\ req[r2].kind = "project")
                        => \A j \in 1..req[r2].idx :
                              (req[r2].queries[j] = q /\ CacheChecked(req[r2], j))
                                 => ServedFromCache(req[r2], j, search_cache[a][q])

C24_Witness ==
    \E r1, r2 \in Requests :
        /\ r2 > r1 /\ req[r2].asst = req[r1].asst /\ req[r2].pc = "done"
        /\ \E i \in DOMAIN req[r1].search_results :
              /\ AllAttemptsFailed(req[r1], i)
              /\ i \in DOMAIN req[r2].search_results
              /\ req[r2].queries[i] = req[r1].queries[i]
              /\ CacheHit(req[r2], i)
              /\ IsSubSeq(_generate_fallback_response(req[r2].queries[i]),
                          req[r2].search_results[i].results)

---------------------------------------------------------------------------
(* C25: the result of the non-streaming project operation equals the
   synthesis text that stream_project appended to the history as the
   assistant message, trimmed of surrounding whitespace, and holds no status
   text of the research phase, also when the synthesis text contains the
   synthesis marker itself. *)
\* process_request_background has returned for a project request
ProjectReturned(rec) ==
    /\ rec.call.method = "/process" /\ rec.kind = "project"
    /\ rec.pc = "done" /\ rec.http # NoHttp

C25_ResultIsSynthesisText ==
    \A r \in Requests :
        ProjectReturned(req[r])
            => /\ AssistantMessage(req[r].response_content) \in
                      { conversation_history[p] : p \in DOMAIN conversation_history }
               /\ req[r].returned = Strip(req[r].response_content)

---------------------------------------------------------------------------
(* C26: the five queries planned for one description are pairwise distinct
   and every HTTP request builds a fresh assistant with an empty cache; while
   serving /process and /process/stream requests the cache-hit branch of the
   collector is never taken and every planned query is sent to the executor. *)
PairwiseDistinct(queries) ==
    \A j, k \in DOMAIN queries : j # k => queries[j] # queries[k]

\* the queries of the pass the executor was started for
ExecutorRuns(rec) ==
    { rec.trace[e].q : e \in { x \in DOMAIN rec.trace : rec.trace[x].e = "executor" } }

\* no chunk of the pass is a cache-hit notice
NoCachedChunk(rec) ==
    \A p \in DOMAIN rec.out : rec.out[p] = <<>> \/ rec.out[p][1] # CachedChunk(<<>>)[1]

SentToExecutor(rec, j) == j \in ExecutorRuns(rec) /\ NoCachedChunk(rec)

C26_HttpNeverHitsCache ==
    /\ \A r \in Requests :
          (req[r].kind = "project" /\ req[r].pc \notin {"idle", "created", "rejected"})
             => Len(req[r].queries) = NumQueries /\ PairwiseDistinct(req[r].queries)
    /\ \A r \in Requests :
          RoutedRequest(req[r])
             => /\ \A x \in Requests \ {r} :
                      RoutedRequest(req[x]) => req[x].asst # req[r].asst
                /\ req[r].pc = "created" => search_cache[req[r].asst] = EmptyCache
                /\ Position(req[r]) # "c_cached"
                /\ NoCachedChunk(req[r])
                /\ LET runs == ExecutorRuns(req[r])
                   IN \A j \in 1..req[r].idx : CacheChecked(req[r], j) => j \in runs

C26_Witness ==
    \E r1, r2 \in Requests :
        /\ r1 < r2 /\ RoutedRequest(req[r1]) /\ RoutedRequest(req[r2])
        /\ req[r1].kind = "project" /\ req[r2].kind = "project"
        /\ req[r1].input = req[r2].input
        /\ req[r1].pc = "done" /\ req[r2].pc = "done"
        /\ \A j \in 1..NumQueries : SentToExecutor(req[r2], j)

---------------------------------------------------------------------------
(* C27: the executor sleeps exactly once per failed attempt, the final
   attempt included: when all max_retries attempts fail, the fallback text is
   emitted only after max_retries backoff sleeps whose total is at least
   retry_delay * (2^max_retries - 1), and the executor makes at most
   max_retries calls to the search capability per query. *)
RECURSIVE TotalSlept(_)
TotalSlept(sleeps) ==
    IF sleeps = <<>> THEN 0 ELSE Head(sleeps).t + TotalSlept(Tail(sleeps))

FailedAttempts(answers) == Len(SelectSeq(answers, LAMBDA a : FailedAnswer(a.resp)))

\* the executor of query i is past its loop: line 113 and after
LoopExhausted(rec, i, answers) ==
    \/ i = rec.idx /\ Position(rec) \in {"e_allfailed", "e_fallback"}
    \/ /\ Len(answers) = max_retries
       /\ FailedAttempts(answers) = max_retries
       /\ ExecutorEnded(rec, i)

C27_SleepPerFailedAttempt ==
    \A r \in Requests :
      LET all == AllBackoffSleeps(req[r])
      IN \A i \in 1..req[r].idx :
        LET rec == req[r]
            sleeps == Len(SleepsOfQuery(all, i))
            answers == AnswersOf(rec, i)
            failed == FailedAttempts(answers)
        IN /\ Len(answers) <= max_retries
           /\ sleeps <= failed
           /\ failed <= sleeps + 1
           /\ (failed # sleeps) => ~ExecutorEnded(rec, i)
           /\ LoopExhausted(rec, i, answers)
                 => /\ sleeps = max_retries
                    /\ failed = max_retries
                    /\ TotalSlept(SleepsOfQuery(all, i)) >=
                           retry_delay * (Pow2(max_retries) - 1) * TimeScale

C27_Witness ==
    \E r \in Requests :
        LET rec == req[r]
        IN /\ rec.pc = "e_fallback"
           /\ Len(BackoffSleeps(rec, rec.idx)) = max_retries
           /\ \E k \in DOMAIN rec.out : rec.out[k] = _generate_fallback_response(CurrentQuery(rec))
           /\ \E a, b \in 1..max_retries :
                 /\ AnswersOf(rec, rec.idx)[a].resp.end = "raise"
                 /\ RateLimitedAnswer(AnswersOf(rec, rec.idx)[b].resp)

=============================================================================
